---- MODULE Spec2Model ----
(***************************************************************************)
(* Execution Job Orchestrator of rawhun/ai-compiler-ide.                   *)
(*                                                                         *)
(* The repository holds two orchestrators:                                 *)
(*   - the compile route (routes/compile, src/unnamed/part_008:401-820):   *)
(*     jobs live in the in-memory Map compilationJobs, processCompilation  *)
(*     submits to Judge0 with wait=true and falls back to runCode;         *)
(*   - CompilationService (src/unnamed/part_011): jobs live in the table   *)
(*     compilation_jobs, redis is the Status Cache, pollJudge0Results      *)
(*     polls Judge0 with delayed callbacks.                                *)
(* The two share no state.  impl says which of the two a behaviour runs,   *)
(* so that one specification covers both without building their product.   *)
(* A third kind of behaviour, impl = "runner", runs the Local Executor      *)
(* (runCode of services/snippets.ts) step by step: temp files, the child   *)
(* process, its timers and events.  The route sees a local run only as its *)
(* result (ProcessResults).                                                *)
(*                                                                         *)
(* Optional JavaScript values (undefined / null / a value) are modelled as *)
(* sets of at most one element: {} is undefined, {v} is the value v.       *)
(***************************************************************************)
EXTENDS Integers, Sequences, FiniteSets, TLC

\* ---------------------------------------------------------------- bounds
MaxJobs == 1        \* job ids that Submit may hand out in one behaviour
MaxReaders == 1     \* concurrent GetStatus calls of the service
MaxFiles == 1       \* longest sourceFiles array of a request
MaxRuns == 2        \* calls of runCode in one behaviour of the code runner
MaxChunks == 2      \* most 'data' events one child process emits
MaxSources == 2     \* longest sourceFiles array given to prepareSourceCode
MaxTicks == 2       \* instants of the clock the rate limiter is observed at

JobIds == 1..MaxJobs
RunIds == 1..MaxRuns
Readers == 1..MaxReaders
Users == {"u1", "u2"}

\* Language identifiers a request may carry.  python: Judge0 id and a local
\* interpreter; shell: profile in the route, no Judge0 id, local interpreter;
\* java: Judge0 id, no local runner; cobol: no profile anywhere;
\* constructor: no profile, but a member of Object.prototype; PY: an alias
\* of python, in upper case.
Languages == {"python", "PY", "shell", "java", "cobol", "constructor"}

\* sourceFiles arrays of a request: every array of at most MaxFiles files.
FileContents == {"code"}
FileLists == UNION {[1..n -> FileContents] : n \in 0..MaxFiles}
\* request.sourceFiles: absent ({}), or an array ({files}).
SourceFileInputs == {{}} \cup {{fl} : fl \in FileLists}

Undefined == {}
Some(v) == {v}

TerminalStates == {"success", "error", "timeout"}

\* ------------------------------------------------------- runtime registry
\* Own keys of LANGUAGE_CONFIGS of the route, restricted to Languages.
RouteLanguageConfigs == {"python", "shell", "java"}
\* Own keys of LANGUAGE_CONFIGS of the service, restricted to Languages.
ServiceLanguageConfigs == {"python", "java"}
\* Keys every object literal inherits from Object.prototype, restricted to
\* Languages: obj[key] is a function for them, hence truthy.
ObjectPrototypeKeys == {"constructor"}

\* languageMap of getJudge0LanguageId, restricted to Languages.
languageMap == [l \in {"python", "java"} |-> IF l = "python" THEN 71 ELSE 62]

\* LANGUAGE_CONFIGS[language] is truthy (route, part_008:571-572).
RouteLangConfigFound(language) ==
    language \in RouteLanguageConfigs \cup ObjectPrototypeKeys

\* LANGUAGE_CONFIGS[request.language] is truthy (service, part_011:132-133).
ServiceLangConfigFound(language) ==
    language \in ServiceLanguageConfigs \cup ObjectPrototypeKeys

\* getJudge0LanguageId: languageMap[language] || null.  The result is used
\* only for its truthiness and as the language_id of the request; an
\* inherited member (a function) is truthy and is modelled as {0}.
getJudge0LanguageId(language) ==
    IF language \in DOMAIN languageMap THEN Some(languageMap[language])
    ELSE IF language \in ObjectPrototypeKeys THEN Some(0)
    ELSE Undefined

\* ------------------------------------------------------------ runCode
\* language.toLowerCase(), on Languages.
toLowerCase(language) == IF language = "PY" THEN "py" ELSE language

\* The executor runCode dispatches to, after language.toLowerCase(): the
\* cases 'python', 'python3', 'py' and 'shell', 'bash', 'sh' of its switch.
LocalRunner(language) ==
    IF toLowerCase(language) \in {"python", "python3", "py", "shell", "bash", "sh"}
    THEN "process" ELSE "default"

\* Results executeWithProcess resolves with (snippets.ts:763-797) and the
\* catch results of executePython / executeShell.
\* executionTimeMs is Date.now() - startTime, a measured value (here 5).
ProcessResults ==
    { [status |-> "success", stdout |-> "out", stderr |-> "", exitCode |-> 0,
       executionTimeMs |-> 5],
      [status |-> "error", stdout |-> "", stderr |-> "trace", exitCode |-> 1,
       executionTimeMs |-> 5],
      \* close with exitCode null (child ended by a signal): exitCode || 0
      [status |-> "error", stdout |-> "", stderr |-> "", exitCode |-> 0,
       executionTimeMs |-> 5],
      [status |-> "timeout", stdout |-> "", stderr |-> "timed out",
       exitCode |-> 124, executionTimeMs |-> 5],
      \* 'error' event: the interpreter could not be started
      [status |-> "error", stdout |-> "", stderr |-> "spawn ENOENT",
       exitCode |-> 1, executionTimeMs |-> 5] }

\* The default branch of runCode: no local runner for the language.
DefaultResult ==
    [status |-> "success", stdout |-> "syntax appears valid", stderr |-> "",
     exitCode |-> 0, executionTimeMs |-> 0]

\* Results runCode can resolve with for a language.
RunCodeResults(language) ==
    IF LocalRunner(language) = "process" THEN ProcessResults ELSE {DefaultResult}

\* ------------------------------------------------------------ Judge0
\* Status ids a Judge0 answer may carry: 1 in queue, 2 processing,
\* 3 accepted, 6 compilation error; {} is an answer without status.
JudgeStatusIds == {Undefined, Some(1), Some(2), Some(3), Some(6)}

\* The answer body for a status id: stdout, stderr, compile_output.
JudgeAnswer(sid) ==
    [status |-> sid,
     stdout |-> IF sid = Some(3) THEN Some("out") ELSE Undefined,
     stderr |-> Undefined,
     compile_output |-> IF sid = Some(6) THEN Some("cerr") ELSE Undefined]

\* a || b on optional strings: "" is falsy too.
Or2(a, b) == IF a # Undefined /\ a # Some("") THEN a ELSE b

VARIABLES
    impl,             \* "route" or "service": the orchestrator of this behaviour
    compilationJobs,  \* route: the Map jobId -> job
    db,               \* service: table compilation_jobs, id -> row
    cache,            \* service: redis, compilation:<id> -> row
    pc,               \* per job id: where its driving task is suspended
    attempts,         \* service: attempts of the job's pollJudge0Results
    upd,              \* service: the updateJobStatus call in progress, per job
    child,            \* route: behaviour of the child process of the local run
    reader,           \* service: the getCompilationStatus calls in progress
    resp,             \* the response of the last API call that returned
    history,          \* per job id: the statuses written to the job, in order
    remoteSubmits,    \* per job id: submissions sent to Judge0
    localRuns,        \* per job id: calls of runCode
    localResult,      \* per job id: what runCode returned ({} before)
    submitFailed,     \* per job id: the submission to Judge0 failed
    judged,           \* route: per job id, the status id of the Judge0 answer
                      \*   the job was updated from ({} before)
    polls,            \* service: per job id, the poll timers scheduled and
                      \*   the poll requests in flight
    prepared,         \* the last call of prepareSourceCode ({} before)
    limiter,          \* the rate limiter: clock, Map entry, requests passed
    run,              \* runner: the calls of runCode, per run id
    tmpfs             \* runner: the files of TEMP_DIR, name -> content

vars == <<impl, compilationJobs, db, cache, pc, attempts, upd, child,
          reader, resp, history, remoteSubmits, localRuns, localResult,
          submitFailed, judged, polls, prepared, limiter, run, tmpfs>>

routeVars == <<compilationJobs, child, localRuns, localResult, judged>>
toolVars == <<prepared, limiter>>
runnerVars == <<run, tmpfs>>
orchestratorVars == <<compilationJobs, db, cache, pc, attempts, upd, child,
                      reader, resp, history, remoteSubmits, localRuns,
                      localResult, submitFailed, judged, polls>>
serviceVars == <<db, cache, attempts, upd, reader, polls>>

\* No poll timer is scheduled and no poll request is in flight.
NoPolls == [scheduled |-> 0, inflight |-> 0]

\* The limiter before the first request: the clock of the process (ms), the
\* entry of the client's IP in the Map requests ({}: none), the requests
\* handed to next() at the previous and at the current instant of the
\* clock, and the status of the last answer (0: none yet).
NoLimiter ==
    [now |-> 0, entry |-> {}, passedBefore |-> 0, passedNow |-> 0, code |-> 0]

IdleReader == [pc |-> "idle"]
NoUpdate == [active |-> FALSE]

\* A call of runCode that has not been made yet.
\*   st: "idle", "awaiting" (executeWithProcess pending) or "returned";
\*   lang, ms: the language and the Date.now() of the call (the temp file);
\*   child: "none", "spawnError", "starting" (the interpreter has not opened
\*     the script), "running", "exited" (stdio still open), "closed";
\*   behaviour: what the program does; ran: the content the interpreter read;
\*   killed, spawnTimer, killTimer: the flag and the two timers;
\*   late: the child was alive when the timeout elapsed;
\*   out: chunks appended to stdout; exit: the exit code of the child;
\*   orphan: a process the program started is alive; lingering: a timer the
\*   script registered is active; leftover: the temp file existed when the
\*   call returned; notStarted: the commands spawn could not start;
\*   result: what the call returned.
\*   st is "rejected" when the promise of runCode was rejected.
NoRun ==
    [st |-> "idle", lang |-> "none", ms |-> 0, child |-> "none",
     behaviour |-> "none", ran |-> {}, killed |-> FALSE,
     spawnTimer |-> "none", killTimer |-> "none", late |-> FALSE,
     out |-> 0, exit |-> "none", orphan |-> FALSE, lingering |-> FALSE,
     leftover |-> FALSE, notStarted |-> {},
     result |-> {}]

Init ==
    /\ impl \in {"route", "service", "runner", "prepare", "limiter"}
    /\ compilationJobs = <<>>
    /\ db = <<>>
    /\ cache = <<>>
    /\ pc = [j \in JobIds |-> "none"]
    /\ attempts = [j \in JobIds |-> 0]
    /\ upd = [j \in JobIds |-> NoUpdate]
    /\ child = [j \in JobIds |-> "none"]
    /\ reader = [r \in Readers |-> IdleReader]
    /\ resp = [op |-> "none"]
    /\ history = [j \in JobIds |-> <<>>]
    /\ remoteSubmits = [j \in JobIds |-> 0]
    /\ localRuns = [j \in JobIds |-> 0]
    /\ localResult = [j \in JobIds |-> {}]
    /\ submitFailed = [j \in JobIds |-> FALSE]
    /\ judged = [j \in JobIds |-> {}]
    /\ polls = [j \in JobIds |-> NoPolls]
    /\ prepared = {}
    /\ limiter = NoLimiter
    /\ run = [e \in RunIds |-> NoRun]
    /\ tmpfs = <<>>

\* uuidv4(): an id no job has yet.  Ids are handed out in order, which
\* loses nothing: ids are opaque.
FreshIds == {j \in JobIds : pc[j] = "none" /\ \A k \in 1..(j - 1) : pc[k] # "none"}

\* ======================================================================
\* The compile route (part_008)
\* ======================================================================

\* The submission of job j to Judge0 has failed: no language id, a rejected
\* request, a response that is not ok, or a body that cannot be read.
SubmissionFailed(j) == submitFailed' = [submitFailed EXCEPT ![j] = TRUE]

\* executeLocally is entered: runCode is called and runs up to its first
\* suspension.  A process-based runner spawns a child, which either exits
\* (by itself or on SIGTERM) or ignores SIGTERM.
StartLocal(j, language) ==
    /\ localRuns' = [localRuns EXCEPT ![j] = @ + 1]
    /\ \E c \in IF LocalRunner(language) = "process"
                THEN {"exits", "ignoresSIGTERM"} ELSE {"none"} :
           child' = [child EXCEPT ![j] = c]

\* router.post('/'): validation, job creation, and the synchronous prefix of
\* processCompilation (status running, language id lookup, fetch issued or
\* the throw that enters the fallback).  The request sent by fetch is one
\* the judge settles ("fetch") or one it never answers ("fetchNoAnswer").
RouteSubmit(u, language, sf) ==
    /\ impl = "route"
    /\ IF sf = Undefined
       THEN /\ resp' = [op |-> "Submit", code |-> 400,
                        error |-> "Invalid request parameters", jobId |-> {}]
            /\ UNCHANGED <<compilationJobs, pc, history, remoteSubmits,
                           localRuns, child, submitFailed>>
       ELSE IF ~RouteLangConfigFound(language)
       THEN /\ resp' = [op |-> "Submit", code |-> 400,
                        error |-> "Unsupported language", jobId |-> {},
                        language |-> language]
            /\ UNCHANGED <<compilationJobs, pc, history, remoteSubmits,
                           localRuns, child, submitFailed>>
       ELSE \E j \in FreshIds, files \in sf :
            /\ compilationJobs' = compilationJobs @@ (j :>
                   [userId |-> u, language |-> language, sourceFiles |-> files,
                    status |-> "running", stdout |-> Undefined,
                    stderr |-> Undefined, exitCode |-> Undefined,
                    completedAt |-> Undefined, executionTimeMs |-> Undefined,
                    memoryUsedKb |-> Undefined])
            /\ history' = [history EXCEPT ![j] = <<"pending", "running">>]
            /\ IF getJudge0LanguageId(language) = Undefined
               THEN /\ SubmissionFailed(j)
                    /\ StartLocal(j, language)
                    /\ pc' = [pc EXCEPT ![j] = "localCatch"]
                    /\ UNCHANGED remoteSubmits
               ELSE /\ remoteSubmits' = [remoteSubmits EXCEPT ![j] = @ + 1]
                    /\ \E p \in {"fetch", "fetchNoAnswer"} :
                          pc' = [pc EXCEPT ![j] = p]
                    /\ UNCHANGED <<localRuns, child, submitFailed>>
            /\ resp' = [op |-> "Submit", code |-> 202, error |-> "",
                        jobId |-> {j}]
    /\ UNCHANGED <<impl, toolVars, runnerVars, serviceVars, localResult, judged>>

\* The local run of job j settles with runCode's result.  ret is "return"
\* or "fall through" for the branch executeLocally was awaited in.
\* new Date() is modelled as a per-job logical time: the position of the
\* write in the job's history, so two writes never carry the same stamp.
Now(j) == Len(history[j]) + 1

\* executeLocally (part_008:770-791): the fields it copies from the result.
executeLocally(result) ==
    [status |-> result.status, stdout |-> result.stdout,
     stderr |-> result.stderr, exitCode |-> result.exitCode]

\* Object.assign(job, result, {completedAt: new Date(), ...}) of the two
\* fallback branches (part_008:695-699, 730-734).
\* ms, kb: the values of Math.round(Math.random() * 1000 + 100) and of
\* Math.round(Math.random() * 10000 + 1000).
AssignLocalResult(job, result, now, ms, kb) ==
    [job EXCEPT !.status = result.status, !.stdout = Some(result.stdout),
                !.stderr = Some(result.stderr),
                !.exitCode = Some(result.exitCode),
                !.completedAt = Some(now),
                !.executionTimeMs = Some(ms),
                !.memoryUsedKb = Some(kb)]

\* The least and the greatest value of Math.round(Math.random() * 1000 + 100)
\* and of Math.round(Math.random() * 10000 + 1000).
RandomTimes == {100, 1100}
RandomMemory == {1000, 11000}

\* Object.assign(job, {...}) with the Judge0 answer (part_008:713-721); the
\* answers modelled carry neither time nor memory: (time || 0), (memory || 0).
AssignJudgeResult(job, answer, now) ==
    [job EXCEPT !.status = IF answer.status = Some(3) THEN "success" ELSE "error",
                !.stdout = Or2(answer.stdout, Some("")),
                !.stderr = Or2(answer.stderr, Or2(answer.compile_output, Some(""))),
                !.exitCode = IF answer.status = Some(3) THEN Some(0) ELSE Some(1),
                !.completedAt = Some(now),
                !.executionTimeMs = Some(0),
                !.memoryUsedKb = Some(0)]

\* Where processCompilation continues after the fallback of the branch
\* `if (!submissionResponse.ok)`, had that branch no `return`: at the read
\* of the response body.
AfterNotOkFallbackFallsThrough == "json"

\* Where processCompilation continues after the fallback of the branch
\* `if (!submissionResponse.ok)`: the branch ends with `return` (line 700).
AfterNotOkFallback == "done"

\* The test `if (submissionResponse.ok)`: the negation left out.
ResponseNeedsFallbackInverted(outcome) == outcome = "ok"

\* The test `if (!submissionResponse.ok)` on a response (part_008:691).
ResponseNeedsFallback(outcome) == outcome = "notOk"

\* fetch settles: it rejects (network error), or resolves with a response
\* whose ok flag is false or true.  No timeout or abort signal is passed to
\* fetch (part_008:676-689), so a request the judge never answers never
\* settles: no step leaves pc = "fetchNoAnswer".
RouteFetchSettles(j, outcome) ==
    /\ impl = "route"
    /\ pc[j] = "fetch"
    /\ IF outcome = "reject"
       THEN /\ SubmissionFailed(j)
            /\ StartLocal(j, compilationJobs[j].language)
            /\ pc' = [pc EXCEPT ![j] = "localCatch"]
       ELSE /\ submitFailed' = [submitFailed EXCEPT ![j] = (outcome = "notOk")]
            /\ IF ResponseNeedsFallback(outcome)
               THEN /\ StartLocal(j, compilationJobs[j].language)
                    /\ pc' = [pc EXCEPT ![j] = "localNotOk"]
               ELSE /\ pc' = [pc EXCEPT ![j] = "json"]
                    /\ UNCHANGED <<localRuns, child>>
    /\ UNCHANGED <<impl, toolVars, runnerVars, serviceVars, compilationJobs, resp, history,
                   remoteSubmits, localResult, judged>>

\* submissionResponse.json() settles: it throws (malformed body) and the
\* catch block falls back, or it yields the answer and the job is updated.
RouteJsonSettles(j, parsed, sid) ==
    /\ impl = "route"
    /\ pc[j] = "json"
    /\ IF ~parsed
       THEN /\ SubmissionFailed(j)
            /\ StartLocal(j, compilationJobs[j].language)
            /\ pc' = [pc EXCEPT ![j] = "localCatch"]
            /\ UNCHANGED <<compilationJobs, history, judged>>
       ELSE /\ compilationJobs' = [compilationJobs EXCEPT ![j] =
                   AssignJudgeResult(@, JudgeAnswer(sid), Now(j))]
            /\ judged' = [judged EXCEPT ![j] = Some(sid)]
            /\ history' = [history EXCEPT ![j] =
                   Append(@, compilationJobs'[j].status)]
            /\ pc' = [pc EXCEPT ![j] = "done"]
            /\ UNCHANGED <<localRuns, child, submitFailed>>
    /\ UNCHANGED <<impl, toolVars, runnerVars, serviceVars, resp, remoteSubmits, localResult>>

\* await executeLocally(...) settles and the result is copied into the job.
\* The child of a process-based run that ignores SIGTERM never closes, and
\* executeWithProcess resolves only in the close and error handlers.
RouteLocalSettles(j, result) ==
    /\ impl = "route"
    /\ pc[j] \in {"localNotOk", "localCatch"}
    /\ child[j] # "ignoresSIGTERM"
    /\ result \in RunCodeResults(compilationJobs[j].language)
    /\ localResult' = [localResult EXCEPT ![j] = Some(result)]
    /\ \E ms \in RandomTimes, kb \in RandomMemory :
          compilationJobs' = [compilationJobs EXCEPT ![j] =
              AssignLocalResult(@, executeLocally(result), Now(j), ms, kb)]
    /\ history' = [history EXCEPT ![j] = Append(@, result.status)]
    /\ pc' = [pc EXCEPT ![j] =
           IF pc[j] = "localNotOk" THEN AfterNotOkFallback ELSE "done"]
    /\ child' = [child EXCEPT ![j] = "none"]
    /\ UNCHANGED <<impl, toolVars, runnerVars, submitFailed, serviceVars, resp,
                   remoteSubmits, localRuns, judged>>

\* router.get('/:jobId').
RouteGetStatus(u, j) ==
    /\ impl = "route"
    /\ resp' = IF j \notin DOMAIN compilationJobs \/ compilationJobs[j].userId # u
               THEN [op |-> "GetStatus", user |-> u, job |-> j, code |-> 404]
               ELSE [op |-> "GetStatus", user |-> u, job |-> j, code |-> 200,
                     status |-> compilationJobs[j].status,
                     stdout |-> compilationJobs[j].stdout,
                     stderr |-> compilationJobs[j].stderr,
                     exitCode |-> compilationJobs[j].exitCode,
                     completedAt |-> compilationJobs[j].completedAt]
    /\ UNCHANGED <<impl, toolVars, runnerVars, submitFailed, serviceVars, routeVars, pc, history,
                   remoteSubmits>>

\* The test `job.status !== 'success'` of the execute handler, with every
\* terminal state taken for ready.
RouteJobReadyWhenTerminal(status) == status \in TerminalStates

\* The test `job.status !== 'success'` of the execute handler (part_008:639),
\* negated: the job may be executed.
RouteJobReady(status) == status = "success"

\* The response of an Execute call.  user, job: the caller and the id asked
\* for; seen: the job state the handler read ("none": no such job of the
\* caller); executed: the handler started an execution.
ExecuteResponse(u, j, seen, code, error, executed) ==
    [op |-> "Execute", user |-> u, job |-> j, seen |-> seen, code |-> code,
     error |-> error, executed |-> executed]

\* router.post('/:jobId/execute'): mockExecution reads the job and builds a
\* result; it writes nothing to the job.
RouteExecute(u, j) ==
    /\ impl = "route"
    /\ resp' = IF j \notin DOMAIN compilationJobs \/ compilationJobs[j].userId # u
               THEN ExecuteResponse(u, j, "none", 404,
                                    "Compilation job not found", FALSE)
               ELSE IF ~RouteJobReady(compilationJobs[j].status)
               THEN ExecuteResponse(u, j, compilationJobs[j].status, 400,
                                    "Job must be successfully compiled first", FALSE)
               ELSE ExecuteResponse(u, j, compilationJobs[j].status, 200, "", TRUE)
    /\ UNCHANGED <<impl, toolVars, runnerVars, submitFailed, serviceVars, routeVars, pc, history,
                   remoteSubmits>>

\* The steps of the driving task of job j in the route.
RouteJobStep(j) ==
    \/ \E outcome \in {"reject", "notOk", "ok"} : RouteFetchSettles(j, outcome)
    \/ \E parsed \in BOOLEAN, sid \in JudgeStatusIds : RouteJsonSettles(j, parsed, sid)
    \/ \E result \in ProcessResults \cup {DefaultResult} : RouteLocalSettles(j, result)

RouteNext ==
    \/ \E u \in Users, language \in Languages, sf \in SourceFileInputs :
          RouteSubmit(u, language, sf)
    \/ \E j \in JobIds : RouteJobStep(j)
    \/ \E u \in Users, j \in JobIds : RouteGetStatus(u, j)
    \/ \E u \in Users, j \in JobIds : RouteExecute(u, j)

\* ======================================================================
\* CompilationService (part_011)
\* ======================================================================

\* maxAttempts of pollJudge0Results.
maxAttempts == 30

\* createCompilationJob: the inserted row.  Columns not given are null.
NewRow(u, language, files) ==
    [user_id |-> u, language |-> language, source_files |-> files,
     status |-> "pending", stdout |-> Undefined, stderr |-> Undefined,
     exit_code |-> Undefined, completed_at |-> Undefined,
     metadata |-> Undefined]

\* db(...).update(updateData): the columns named in the update change, the
\* others keep their value.
ApplyUpdate(row, updateData) ==
    [f \in DOMAIN row |-> IF f \in DOMAIN updateData THEN updateData[f] ELSE row[f]]

\* updateData of updateJobStatus with completed_at left out.
UpdateDataNoCompletedAt(status, updates, now) ==
    [f \in DOMAIN updates \cup {"status"} |->
        IF f \in DOMAIN updates THEN updates[f] ELSE status]

\* updateData of updateJobStatus: {status, ...updates, completed_at: new Date()}.
UpdateData(status, updates, now) ==
    [f \in DOMAIN updates \cup {"status", "completed_at"} |->
        IF f = "completed_at" THEN Some(now)
        ELSE IF f \in DOMAIN updates THEN updates[f]
        ELSE status]

\* result.status?.id <= 2: false for a missing status.
StillProcessing(sid) == \E n \in sid : n <= 2

\* What one run of poll does with an answer: poll again, or the status to
\* record (part_011:471-495).
PollAnswerStatus(sid, att) ==
    IF StillProcessing(sid)
    THEN IF att < maxAttempts THEN "retry" ELSE "timeout"
    ELSE IF sid = Some(3) THEN "success" ELSE "error"

\* What the catch block of poll does (part_011:497-507).
PollFailureStatus(att) ==
    IF att < maxAttempts THEN "retry" ELSE "error"

\* The updates poll passes to updateJobStatus with a completed answer:
\* exit_code is result.status?.id === 3 ? 0 : result.status?.id || -1.
CompletedUpdates(answer) ==
    [stdout |-> Or2(answer.stdout, Some("")),
     stderr |-> Or2(answer.stderr, Or2(answer.compile_output, Some(""))),
     exit_code |-> IF answer.status = Some(3) THEN Some(0)
                   ELSE IF answer.status = Undefined THEN Some(-1)
                   ELSE answer.status]

TimeoutUpdates == [stderr |-> Some("Compilation timed out after 30 seconds")]
PollFailedUpdates == [stderr |-> Some("Failed to get compilation results")]
SubmitFailedUpdates == [stderr |-> Some("Failed to submit compilation job")]

\* updateJobStatus is entered: its arguments are kept until its three
\* awaited steps (update, select, setex) have run.  then is what the caller
\* does afterwards: "throw" in submitCompilation, "end" in poll.
BeginUpdate(j, status, updates, then) ==
    /\ upd' = [upd EXCEPT ![j] = [active |-> TRUE, status |-> status,
                                  updates |-> updates, then |-> then,
                                  row |-> Undefined]]
    /\ pc' = [pc EXCEPT ![j] = "upd_db"]

\* formatCompilationResult.
formatCompilationResult(row) ==
    [status |-> row.status, stdout |-> row.stdout, stderr |-> row.stderr,
     exitCode |-> row.exit_code, completedAt |-> row.completed_at]

\* submitCompilation up to its first request to Judge0: validation, the
\* workspace permission check (access: its outcome; the workspace tables
\* are not modelled), the profile lookup, the insert of the job.
\* A rejected request runs the catch block: updateJobStatus for an id that
\* has no row updates nothing and caches nothing, then the error is thrown.
SvcSubmit(u, language, sf) ==
    /\ impl = "service"
    /\ LET reject(msg) ==
             /\ resp' = IF msg = "Unsupported language"
                        THEN [op |-> "Submit", ok |-> FALSE, error |-> msg,
                              jobId |-> {}, language |-> language]
                        ELSE [op |-> "Submit", ok |-> FALSE, error |-> msg,
                              jobId |-> {}]
             /\ UNCHANGED <<db, pc, history, remoteSubmits>>
       IN IF sf = Undefined \/ sf = {<<>>}
          THEN reject("At least one source file is required")
          ELSE \E access \in BOOLEAN :
               IF ~access
               THEN reject("Access denied to workspace")
               ELSE IF ~ServiceLangConfigFound(language)
               THEN reject("Unsupported language")
               ELSE \E j \in FreshIds, files \in sf :
                    /\ db' = db @@ (j :> NewRow(u, language, files))
                    /\ history' = [history EXCEPT ![j] = <<"pending">>]
                    /\ remoteSubmits' = [remoteSubmits EXCEPT ![j] = @ + 1]
                    /\ pc' = [pc EXCEPT ![j] = "submit"]
                    /\ UNCHANGED resp
    /\ UNCHANGED <<impl, toolVars, runnerVars, submitFailed, routeVars, cache, attempts,
                   upd, reader, polls>>

\* axios.post of submitToJudge0 settles.  The request carries timeout 30000,
\* so it fails by itself when the judge does not answer.  On a token the
\* metadata is stored, the first poll is scheduled and Submit returns; on a
\* failure the catch block of submitCompilation marks the job error.
SvcSubmitSettles(j, outcome) ==
    /\ impl = "service"
    /\ pc[j] = "submit"
    /\ IF outcome = "token"
       THEN /\ db' = [db EXCEPT ![j].metadata = Some("token")]
            /\ pc' = [pc EXCEPT ![j] = "timer"]
            /\ polls' = [polls EXCEPT ![j].scheduled = @ + 1]
            /\ resp' = [op |-> "Submit", ok |-> TRUE, error |-> "",
                        jobId |-> {j}]
            /\ UNCHANGED <<upd, submitFailed>>
       ELSE /\ SubmissionFailed(j)
            /\ BeginUpdate(j, "error", SubmitFailedUpdates, "throw")
            /\ UNCHANGED <<db, resp, polls>>
    /\ UNCHANGED <<impl, toolVars, runnerVars, routeVars, cache, attempts, reader, history,
                   remoteSubmits>>

\* The timer of setTimeout(poll, 1000) fires: attempts++, axios.get is sent.
SvcPollFires(j) ==
    /\ impl = "service"
    /\ pc[j] = "timer"
    /\ polls[j].scheduled > 0
    /\ attempts' = [attempts EXCEPT ![j] = @ + 1]
    /\ polls' = [polls EXCEPT ![j].scheduled = @ - 1, ![j].inflight = @ + 1]
    /\ pc' = [pc EXCEPT ![j] = "poll"]
    /\ UNCHANGED <<impl, toolVars, runnerVars, submitFailed, routeVars, db, cache, upd, reader, resp,
                   history, remoteSubmits>>

\* The timers poll schedules with outcome st, a timer being scheduled with
\* every outcome.
ScheduledAfterAnyOutcome(st) == 1

\* The timers poll schedules once axios.get has settled with outcome st:
\* setTimeout(poll, 1000) when it polls again, none when it records a status.
ScheduledAfter(st) == IF st = "retry" THEN 1 ELSE 0

\* What poll does once axios.get has settled with outcome st ("retry" or
\* the status to record) and the updates that go with it.
PollContinue(j, st, updates) ==
    /\ polls' = [polls EXCEPT ![j].inflight = @ - 1,
                              ![j].scheduled = @ + ScheduledAfter(st)]
    /\ IF st = "retry"
       THEN /\ pc' = [pc EXCEPT ![j] = "timer"]
            /\ UNCHANGED upd
       ELSE BeginUpdate(j, st, updates, "end")

\* axios.get of poll settles with an answer of the judge.
SvcPollAnswers(j, sid) ==
    /\ impl = "service"
    /\ pc[j] = "poll"
    /\ LET st == PollAnswerStatus(sid, attempts[j])
       IN PollContinue(j, st, IF st = "timeout" THEN TimeoutUpdates
                                 ELSE CompletedUpdates(JudgeAnswer(sid)))
    /\ UNCHANGED <<impl, toolVars, runnerVars, submitFailed, routeVars, db, cache, attempts, reader, resp,
                   history, remoteSubmits>>

\* axios.get of poll fails: a network error, a non-2xx answer, the 30 s
\* request timeout, or an answer without a body.
SvcPollFails(j) ==
    /\ impl = "service"
    /\ pc[j] = "poll"
    /\ PollContinue(j, PollFailureStatus(attempts[j]), PollFailedUpdates)
    /\ UNCHANGED <<impl, toolVars, runnerVars, submitFailed, routeVars, db, cache, attempts, reader, resp,
                   history, remoteSubmits>>

\* updateJobStatus, first await: the UPDATE of the row.
SvcUpdateDb(j) ==
    /\ impl = "service"
    /\ pc[j] = "upd_db"
    /\ db' = [db EXCEPT ![j] =
           ApplyUpdate(@, UpdateData(upd[j].status, upd[j].updates, Now(j)))]
    /\ history' = [history EXCEPT ![j] = Append(@, upd[j].status)]
    /\ pc' = [pc EXCEPT ![j] = "upd_sel"]
    /\ UNCHANGED <<impl, toolVars, runnerVars, submitFailed, routeVars, polls, cache, attempts, upd, reader, resp,
                   remoteSubmits>>

\* updateJobStatus, second await: the SELECT of the row.
SvcUpdateSelect(j) ==
    /\ impl = "service"
    /\ pc[j] = "upd_sel"
    /\ upd' = [upd EXCEPT ![j].row = Some(db[j])]
    /\ pc' = [pc EXCEPT ![j] = "upd_cache"]
    /\ UNCHANGED <<impl, toolVars, runnerVars, submitFailed, routeVars, polls, db, cache, attempts, reader, resp,
                   history, remoteSubmits>>

\* updateJobStatus, third await: redis.setex of the selected row; then the
\* caller goes on: submitCompilation rethrows, poll returns and its closure
\* (attempts) is gone.
SvcUpdateCache(j) ==
    /\ impl = "service"
    /\ pc[j] = "upd_cache"
    /\ \E row \in upd[j].row : cache' = (j :> row) @@ cache
    /\ upd' = [upd EXCEPT ![j] = NoUpdate]
    /\ pc' = [pc EXCEPT ![j] = "done"]
    /\ attempts' = [attempts EXCEPT ![j] = 0]
    /\ resp' = IF upd[j].then = "throw"
               THEN [op |-> "Submit", ok |-> FALSE,
                     error |-> "Failed to submit compilation job", jobId |-> {}]
               ELSE resp
    /\ UNCHANGED <<impl, toolVars, runnerVars, submitFailed, routeVars, polls, db, reader, history,
                   remoteSubmits>>

\* The response of getCompilationStatus.  after: the call started when the
\* job's terminal record had already been written to the cache.
StatusResponse(u, j, after, result) ==
    [op |-> "GetStatus", user |-> u, job |-> j, after |-> after,
     result |-> result]

\* The ownership test of a cached record, left out.
CachedRecordServedToAnyone(row, u) == TRUE

\* `result.user_id === userId` on a cached record (part_011:188).
CachedRecordOwnedBy(row, u) == row.user_id = u

\* getCompilationStatus, first await: redis.get.  A hit owned by the caller
\* is returned; otherwise the database is asked.
SvcGetStart(r, u, j) ==
    /\ impl = "service"
    /\ reader[r].pc = "idle"
    /\ IF j \in DOMAIN cache /\ CachedRecordOwnedBy(cache[j], u)
       THEN /\ resp' = StatusResponse(u, j, pc[j] = "done",
                                      Some(formatCompilationResult(cache[j])))
            /\ UNCHANGED reader
       ELSE /\ reader' = [reader EXCEPT ![r] =
                   [pc |-> "dbread", user |-> u, job |-> j,
                    after |-> (pc[j] = "done"), row |-> Undefined]]
            /\ UNCHANGED resp
    /\ UNCHANGED <<impl, toolVars, runnerVars, submitFailed, routeVars, polls, db, cache, pc, attempts, upd,
                   history, remoteSubmits>>

\* getCompilationStatus, second await: the SELECT by id and user_id.
SvcGetDbRead(r) ==
    /\ impl = "service"
    /\ reader[r].pc = "dbread"
    /\ LET j == reader[r].job
           u == reader[r].user
       IN IF j \in DOMAIN db /\ db[j].user_id = u
          THEN /\ reader' = [reader EXCEPT ![r].pc = "cachewrite",
                                           ![r].row = Some(db[j])]
               /\ UNCHANGED resp
          ELSE /\ reader' = [reader EXCEPT ![r] = IdleReader]
               /\ resp' = StatusResponse(u, j, reader[r].after, Undefined)
    /\ UNCHANGED <<impl, toolVars, runnerVars, submitFailed, routeVars, polls, db, cache, pc, attempts, upd,
                   history, remoteSubmits>>

\* getCompilationStatus, third await: redis.setex of the row read, then the
\* formatted row is returned.
SvcGetCacheWrite(r) ==
    /\ impl = "service"
    /\ reader[r].pc = "cachewrite"
    /\ \E row \in reader[r].row :
          /\ cache' = (reader[r].job :> row) @@ cache
          /\ resp' = StatusResponse(reader[r].user, reader[r].job, reader[r].after,
                                    Some(formatCompilationResult(row)))
    /\ reader' = [reader EXCEPT ![r] = IdleReader]
    /\ UNCHANGED <<impl, toolVars, runnerVars, submitFailed, routeVars, polls, db, pc, attempts, upd, history,
                   remoteSubmits>>

\* The TTL of a cache entry (3600 s) runs out.  An entry is written after
\* the job was created and the driving task of a job ends within 30 s
\* (submit) + 30 * (1 s + 30 s) (polls), so no entry expires before that.
CacheExpires(j) ==
    /\ impl = "service"
    /\ j \in DOMAIN cache
    /\ pc[j] = "done"
    /\ cache' = [k \in DOMAIN cache \ {j} |-> cache[k]]
    /\ UNCHANGED <<impl, toolVars, runnerVars, submitFailed, routeVars, polls, db, pc, attempts, upd, reader, resp,
                   history, remoteSubmits>>

\* executeProgram: it selects the job with status success and runs it on
\* Judge0 again; it inserts into execution_jobs and never writes the job.
SvcExecute(u, j, answered) ==
    /\ impl = "service"
    /\ LET seen == IF j \in DOMAIN db /\ db[j].user_id = u
                   THEN db[j].status ELSE "none"
       IN resp' = IF seen # "success"
                  THEN ExecuteResponse(u, j, seen, 500,
                           "Successful compilation job not found", FALSE)
                  ELSE IF ~answered
                  THEN ExecuteResponse(u, j, seen, 500, "request failed", TRUE)
                  ELSE ExecuteResponse(u, j, seen, 200, "", TRUE)
    /\ UNCHANGED <<impl, toolVars, runnerVars, submitFailed, routeVars, polls, db, cache, pc, attempts, upd,
                   reader, history, remoteSubmits>>

\* The steps of the driving task of job j in the service.
SvcJobStep(j) ==
    \/ \E outcome \in {"token", "fail"} : SvcSubmitSettles(j, outcome)
    \/ SvcPollFires(j)
    \/ \E sid \in JudgeStatusIds : SvcPollAnswers(j, sid)
    \/ SvcPollFails(j)
    \/ SvcUpdateDb(j)
    \/ SvcUpdateSelect(j)
    \/ SvcUpdateCache(j)

ServiceNext ==
    \/ \E u \in Users, language \in Languages, sf \in SourceFileInputs :
          SvcSubmit(u, language, sf)
    \/ \E j \in JobIds : SvcJobStep(j)
    \/ \E r \in Readers, u \in Users, j \in JobIds : SvcGetStart(r, u, j)
    \/ \E r \in Readers : SvcGetDbRead(r)
    \/ \E r \in Readers : SvcGetCacheWrite(r)
    \/ \E j \in JobIds : CacheExpires(j)
    \/ \E u \in Users, j \in JobIds, answered \in BOOLEAN : SvcExecute(u, j, answered)

\* ======================================================================
\* The Local Executor (services/snippets.ts)
\* ======================================================================

\* The languages runCode is called with here: two that run a temp file in
\* a child process, one that runs in the vm module.
FileLanguages == {"python", "shell"}

\* Date.now() of a call, in milliseconds.
Clock == 1..MaxRuns

\* path.join(TEMP_DIR, `python_${Date.now()}.py`): the name is made of the
\* language and the millisecond, nothing else.
tempFile(lang, ms) == <<lang, ms>>

\* The source code runCode is called with in call e: each call has its own.
Code(e) == <<"code", e>>
\* What a file holds after a write that failed half way.
PartialContent == <<"partial", 0>>
\* What an interpreter reads when the script does not exist.
NoSuchFile == <<"missing", 0>>

\* How fs.writeFileSync ends: it writes the file; it throws before creating
\* the file (EACCES, ENOENT); it throws after creating it (ENOSPC, EIO).
WriteOutcomes == {"ok", "throwsNoFile", "throwsPartial"}

\* The directory after fs.writeFileSync(file, content).
writeFileSync(files, file, content, outcome) ==
    IF outcome = "ok" THEN (file :> content) @@ files
    ELSE IF outcome = "throwsPartial" THEN (file :> PartialContent) @@ files
    ELSE files

\* The directory after try { fs.unlinkSync(file) } catch {}.
unlinkSync(files, file) == [f \in DOMAIN files \ {file} |-> files[f]]

\* What a program does once the interpreter runs it: exit with 0 or 1, be
\* ended by a signal it raises itself (abort, segmentation fault), loop
\* until it is signalled, loop after starting a background process with its
\* own stdio, or loop with SIGTERM ignored.
Behaviours ==
    {"exits0", "exits1", "diesBySignal", "loops", "loopsWithOrphan",
     "ignoresSIGTERM"}

\* The result of the close handler, with the killed flag left out of it.
CloseResultIgnoringKilled(killed, exitCode, out) ==
    [status |-> IF exitCode = "0" THEN "success" ELSE "error",
     exitCode |-> IF exitCode = "1" THEN 1 ELSE 0, stdout |-> out,
     message |-> ""]

\* The result the close handler of executeWithProcess resolves with
\* (snippets.ts:763-784).  message: the text the executor itself puts into
\* stderr.  exitCode is "null" for a child ended by a
\* signal: exitCode === 0 is false and exitCode || 0 is 0.
CloseResult(killed, exitCode, out) ==
    IF killed
    THEN [status |-> "timeout", exitCode |-> 124, stdout |-> out,
          message |-> "Execution timed out"]
    ELSE [status |-> IF exitCode = "0" THEN "success" ELSE "error",
          exitCode |-> IF exitCode = "1" THEN 1 ELSE 0, stdout |-> out,
          message |-> ""]

\* The result of the error handler (message: error.message of the spawn
\* failure) and of the catch blocks of the executors (message: their text).
ErrorResult(message) ==
    [status |-> "error", exitCode |-> 1, stdout |-> 0, message |-> message]

\* The command an executor spawns: executePython runs python3 first and
\* python in its catch block, executeShell runs bash.
Command(lang, retry) ==
    IF lang = "shell" THEN "bash" ELSE IF retry THEN "python" ELSE "python3"

\* error.message of the 'error' event of a child that could not be started:
\* it names the command.
SpawnErrorMessage(commands) ==
    IF "python3" \in commands THEN "spawn python3 ENOENT"
    ELSE IF "python" \in commands THEN "spawn python ENOENT"
    ELSE "spawn bash ENOENT"

\* The text of the catch block of an executor.
CatchMessage(lang) ==
    IF lang = "shell" THEN "Bash shell not available."
    ELSE "Python interpreter not found"

\* process.kill('SIGTERM') and the kill of spawn's timeout: the signal goes
\* to the child alone.  A child that has not installed a handler dies of it.
Terminate(r) ==
    IF r.child \in {"starting", "running"} /\ r.behaviour # "ignoresSIGTERM"
    THEN [r EXCEPT !.child = "exited", !.exit = "null"]
    ELSE r

\* spawn's timer and the kill timer are created one after the other in the
\* same synchronous block with the same delay, so they expire together and
\* their callbacks run one after the other in the same pass over the timer
\* list: no event of the child is delivered between the two.
TimerListRunning(r) == r.spawnTimer = "fired" /\ r.killTimer = "armed"

\* The run ids not used yet; calls are numbered in the order they are made.
FreshRuns ==
    {e \in RunIds : run[e].st = "idle" /\ \A k \in 1..(e - 1) : run[k].st # "idle"}

\* executeWithProcess up to the return of the promise: the child is spawned
\* with the timeout option, the kill timer is set, stdin is ended.
\* found: the command exists (otherwise the child emits 'error').
Spawned(lang, ms, command, found) ==
    [NoRun EXCEPT !.st = "awaiting", !.lang = lang, !.ms = ms,
                  !.notStarted = IF found THEN {} ELSE {command},
                  !.child = IF found THEN "starting" ELSE "spawnError",
                  !.spawnTimer = "armed", !.killTimer = "armed"]

\* An executor returns from a catch block, with the directory as it is.
Caught(lang, ms, files) ==
    [NoRun EXCEPT !.st = "returned", !.lang = lang, !.ms = ms,
                  !.leftover = (tempFile(lang, ms) \in DOMAIN files),
                  !.result = {ErrorResult(CatchMessage(lang))}]

\* runCode for python or shell, up to the first await: executePython /
\* executeShell write the temp file and call executeWithProcess.  When the
\* write throws, the catch block unlinks the file; executePython then writes
\* it again and runs `python`, and returns an error without another unlink
\* when that write throws too; executeShell returns an error.
RunStartFile(e, lang, ms, w1, w2, found) ==
    /\ impl = "runner"
    /\ e \in FreshRuns
    /\ \A k \in RunIds : run[k].ms <= ms
    /\ w1 = "ok" \/ lang # "python" => w2 = "ok"
    /\ LET file == tempFile(lang, ms)
           written == writeFileSync(tmpfs, file, Code(e), w1)
           cleaned == unlinkSync(written, file)
           rewritten == writeFileSync(cleaned, file, Code(e), w2)
       IN IF w1 = "ok"
          THEN /\ tmpfs' = written
               /\ run' = [run EXCEPT ![e] =
                     Spawned(lang, ms, Command(lang, FALSE), found)]
          ELSE IF lang = "python"
          THEN /\ tmpfs' = rewritten
               /\ run' = [run EXCEPT ![e] =
                     IF w2 = "ok"
                     THEN Spawned(lang, ms, Command(lang, TRUE), found)
                     ELSE Caught(lang, ms, rewritten)]
          ELSE /\ tmpfs' = cleaned
               /\ run' = [run EXCEPT ![e] = Caught(lang, ms, cleaned)]
    /\ UNCHANGED <<impl, toolVars, orchestratorVars>>

\* runCode for javascript: executeJavaScript runs the script synchronously
\* in a vm context that holds the host's setTimeout and setInterval.
\* b: the script returns, throws, or loops until the vm timeout;
\* timers: it has called setInterval before.  Nothing clears that timer.
executeJavaScript(e, b, timers) ==
    /\ impl = "runner"
    /\ e \in FreshRuns
    /\ run' = [run EXCEPT ![e] =
          [NoRun EXCEPT !.st = "returned", !.lang = "javascript",
                        !.lingering = timers,
                        !.result =
                            {IF b = "returns"
                             THEN [status |-> "success", exitCode |-> 0,
                                   stdout |-> 0, message |-> ""]
                             ELSE IF b = "loops"
                             THEN [status |-> "timeout", exitCode |-> 124,
                                   stdout |-> 0,
                                   message |-> "Execution timed out"]
                             ELSE ErrorResult("error.message")}]]
    /\ UNCHANGED <<impl, toolVars, orchestratorVars, tmpfs>>

\* The JSON array ["python"], written as its JSON text: a language that is
\* not a string.  As a property key it is "python", so it passes the lookups
\* LANGUAGE_CONFIGS[language] and languageMap[language] of the route.
NonStringLanguages == {"[python]"}

\* runCode for a language that has no case in the switch, or is no string:
\* language.toLowerCase() throws for a value that is not a string, and the
\* promise of the async function is rejected; the default branch returns
\* success with a preview of the code.
runCodeDefault(e, lang) ==
    /\ impl = "runner"
    /\ e \in FreshRuns
    /\ run' = [run EXCEPT ![e] =
          IF lang \in NonStringLanguages
          THEN [NoRun EXCEPT !.st = "rejected", !.lang = lang]
          ELSE [NoRun EXCEPT !.st = "returned", !.lang = lang,
                             !.result = {[status |-> "success", exitCode |-> 0,
                                          stdout |-> 0, message |-> ""]}]]
    /\ UNCHANGED <<impl, toolVars, orchestratorVars, tmpfs>>

\* The interpreter opens the script: it reads what the temp file holds now,
\* and the program starts to run.  A missing file makes it exit with 1.
ChildReads(e, b) ==
    /\ impl = "runner"
    /\ run[e].child = "starting"
    /\ ~TimerListRunning(run[e])
    /\ LET file == tempFile(run[e].lang, run[e].ms)
       IN IF file \in DOMAIN tmpfs
          THEN run' = [run EXCEPT ![e].child = "running", ![e].behaviour = b,
                                  ![e].ran = {tmpfs[file]},
                                  ![e].orphan = (b = "loopsWithOrphan")]
          ELSE /\ b = "exits1"
               /\ run' = [run EXCEPT ![e].child = "running", ![e].behaviour = b,
                                     ![e].ran = {NoSuchFile}]
    /\ UNCHANGED <<impl, toolVars, orchestratorVars, tmpfs>>

\* A 'data' event of the child's stdout: stdout += data.toString().
ChildWrites(e) ==
    /\ impl = "runner"
    /\ run[e].child = "running"
    /\ ~TimerListRunning(run[e])
    /\ run[e].out < MaxChunks
    /\ run' = [run EXCEPT ![e].out = @ + 1]
    /\ UNCHANGED <<impl, toolVars, orchestratorVars, tmpfs>>

\* The program exits by itself or is ended by a signal of its own (the exit
\* code is then null); the exit listener of spawn clears spawn's
\* timer.  The stdio streams may stay open for a while.
ChildExits(e) ==
    /\ impl = "runner"
    /\ run[e].child = "running"
    /\ run[e].behaviour \in {"exits0", "exits1", "diesBySignal"}
    /\ ~TimerListRunning(run[e])
    /\ run' = [run EXCEPT ![e].child = "exited",
                          ![e].exit = IF run[e].behaviour = "exits0" THEN "0"
                                      ELSE IF run[e].behaviour = "exits1" THEN "1"
                                      ELSE "null",
                          ![e].spawnTimer = IF @ = "armed" THEN "cleared" ELSE @]
    /\ UNCHANGED <<impl, toolVars, orchestratorVars, tmpfs>>

\* The timeout elapses, first callback: the timer of spawn's timeout option
\* sends SIGTERM to the child.
SpawnTimeoutFires(e) ==
    /\ impl = "runner"
    /\ run[e].st = "awaiting"
    /\ run[e].spawnTimer = "armed"
    /\ run[e].child \in {"starting", "running"}
    /\ run' = [run EXCEPT ![e] =
          Terminate([@ EXCEPT !.spawnTimer = "fired", !.late = TRUE])]
    /\ UNCHANGED <<impl, toolVars, orchestratorVars, tmpfs>>

\* The timeout elapses, second callback: the kill timer of
\* executeWithProcess sets killed and sends SIGTERM.
KillTimerFires(e) ==
    /\ impl = "runner"
    /\ run[e].st = "awaiting"
    /\ run[e].killTimer = "armed"
    /\ run[e].spawnTimer # "armed"
    /\ run' = [run EXCEPT ![e] =
          Terminate([@ EXCEPT !.killTimer = "fired", !.killed = TRUE])]
    /\ UNCHANGED <<impl, toolVars, orchestratorVars, tmpfs>>

\* The executor continues after `await executeWithProcess(...)`: it unlinks
\* the temp file and returns the result.
Returned(r, result) ==
    [r EXCEPT !.st = "returned", !.result = {result},
              !.killTimer = IF @ = "armed" THEN "cleared" ELSE @,
              !.leftover = FALSE]

\* The 'close' event: the child has exited and its stdio streams are closed.
\* The handler clears the kill timer and resolves; the executor unlinks the
\* temp file and returns.
ChildCloses(e) ==
    /\ impl = "runner"
    /\ run[e].st = "awaiting"
    /\ run[e].child = "exited"
    /\ ~TimerListRunning(run[e])
    /\ run' = [run EXCEPT ![e] =
          Returned([@ EXCEPT !.child = "closed"],
                   CloseResult(run[e].killed, run[e].exit, run[e].out))]
    /\ tmpfs' = unlinkSync(tmpfs, tempFile(run[e].lang, run[e].ms))
    /\ UNCHANGED <<impl, toolVars, orchestratorVars>>

\* The 'error' event: the command could not be started.
SpawnErrors(e) ==
    /\ impl = "runner"
    /\ run[e].st = "awaiting"
    /\ run[e].child = "spawnError"
    /\ run' = [run EXCEPT ![e] =
          Returned([@ EXCEPT !.child = "none", !.spawnTimer = "cleared"],
                   ErrorResult(SpawnErrorMessage(run[e].notStarted)))]
    /\ tmpfs' = unlinkSync(tmpfs, tempFile(run[e].lang, run[e].ms))
    /\ UNCHANGED <<impl, toolVars, orchestratorVars>>

\* The events of the call e of runCode.
RunStep(e) ==
    \/ \E b \in Behaviours : ChildReads(e, b)
    \/ ChildWrites(e)
    \/ ChildExits(e)
    \/ SpawnTimeoutFires(e)
    \/ KillTimerFires(e)
    \/ ChildCloses(e)
    \/ SpawnErrors(e)

RunnerNext ==
    \/ \E e \in RunIds, lang \in FileLanguages, ms \in Clock,
          w1 \in WriteOutcomes, w2 \in WriteOutcomes, found \in BOOLEAN :
          RunStartFile(e, lang, ms, w1, w2, found)
    \/ \E e \in RunIds, b \in {"returns", "throws", "loops"}, timers \in BOOLEAN :
          executeJavaScript(e, b, timers)
    \/ \E e \in RunIds, lang \in {"java"} \cup NonStringLanguages :
          runCodeDefault(e, lang)
    \/ \E e \in RunIds : RunStep(e)

\* ======================================================================
\* prepareSourceCode (part_011) and the source the route submits (part_008)
\* ======================================================================

\* The files of a multi-file submission: a path and a content.
Paths == {"Main.java", "Domain.java", "App.java"}
WithMain == "public class A { public static void main(String[] args) {} }"
WithoutMain == "class B {}"
SourceFiles == [path : Paths, content : {WithMain, WithoutMain}]
SourceLists == UNION {[1..n -> SourceFiles] : n \in 1..MaxSources}

\* f.content.includes('public static void main').
ContentIncludesMain(content) == content = WithMain

\* f.path.toLowerCase(), on Paths.
PathToLowerCase(path) ==
    IF path = "Main.java" THEN "main.java"
    ELSE IF path = "Domain.java" THEN "domain.java"
    ELSE "app.java"

\* f.path.toLowerCase().includes('main').
PathIncludesMain(path) == PathToLowerCase(path) \in {"main.java", "domain.java"}

\* sourceFiles.find(f => f.content.includes('public static void main') ||
\* f.path.toLowerCase().includes('main')): the first such file, or undefined.
FindMainFile(files) ==
    LET hits == {i \in 1..Len(files) :
                    \/ ContentIncludesMain(files[i].content)
                    \/ PathIncludesMain(files[i].path)}
    IN IF hits = {} THEN Undefined
       ELSE Some(files[CHOOSE i \in hits : \A k \in hits : i <= k])

\* The text prepareSourceCode returns, as its pieces in order: a piece is a
\* header line (the comment sign and the path, both empty for none) and a
\* content.
Piece(sign, path, content) == <<sign, path, content>>

\* prepareSourceCode: one file is returned as it is; java returns the main
\* file or the first file; python concatenates under '# File:' headers.
prepareSourceCode(files, language) ==
    IF Len(files) = 1 THEN <<Piece("", "", files[1].content)>>
    ELSE IF language = "java"
    THEN LET mainFile == FindMainFile(files)
         IN IF mainFile # Undefined
            THEN <<Piece("", "", (CHOOSE f \in mainFile : TRUE).content)>>
            ELSE <<Piece("", "", files[1].content)>>
    ELSE [i \in 1..Len(files) |->
             Piece("# File:", files[i].path, files[i].content)]

\* The source processCompilation submits: job.sourceFiles[0]?.content || ''.
firstFileContent(files) ==
    IF Len(files) = 0 THEN <<Piece("", "", "")>>
    ELSE <<Piece("", "", files[1].content)>>

\* One orchestrator prepares the source of a submission.
PrepareSource(by, language, files) ==
    /\ impl = "prepare"
    /\ prepared' = {[by |-> by, language |-> language, files |-> files,
                     source |-> IF by = "service"
                                THEN prepareSourceCode(files, language)
                                ELSE firstFileContent(files)]}
    /\ UNCHANGED <<impl, orchestratorVars, runnerVars, limiter>>

PrepareNext ==
    \E by \in {"service", "route"}, language \in {"java", "python"},
       files \in SourceLists : PrepareSource(by, language, files)

\* ======================================================================
\* The rate limiter (middleware/rateLimiter.ts)
\* ======================================================================

\* windowMs and maxRequests of rateLimiter.
windowMs == 60000
maxRequests == 100

\* The distance of two instants the clock is observed at: two thirds of a
\* window, so two instants next to each other lie in one interval of
\* windowMs, and an entry made at one instant has expired two instants on.
Tick == (2 * windowMs) \div 3

\* next() is called: the request is handed to the routes.
Passed(l) == [l EXCEPT !.passedNow = @ + 1, !.code = 200]

\* rateLimiter for one request of the client, at the instant limiter.now.
rateLimiter ==
    /\ impl = "limiter"
    /\ limiter' =
          IF \/ limiter.entry = {}
             \/ \E userRequests \in limiter.entry :
                    limiter.now > userRequests.resetTime
          THEN Passed([limiter EXCEPT !.entry =
                   {[count |-> 1, resetTime |-> limiter.now + windowMs]}])
          ELSE LET userRequests == CHOOSE u \in limiter.entry : TRUE
               IN IF userRequests.count >= maxRequests
                  THEN [limiter EXCEPT !.code = 429]
                  ELSE Passed([limiter EXCEPT !.entry =
                          {[userRequests EXCEPT !.count = @ + 1]}])
    /\ UNCHANGED <<impl, orchestratorVars, runnerVars, prepared>>

\* The callback of setInterval(..., 60000): expired entries are deleted.
\* The interval runs from the start of the process, so its callback can fall
\* on any instant.
CleanupExpired ==
    /\ impl = "limiter"
    /\ \E userRequests \in limiter.entry : limiter.now > userRequests.resetTime
    /\ limiter' = [limiter EXCEPT !.entry = {}]
    /\ UNCHANGED <<impl, orchestratorVars, runnerVars, prepared>>

\* Time passes: the clock reaches the next instant.
TimePasses ==
    /\ impl = "limiter"
    /\ limiter.now < MaxTicks * Tick
    /\ limiter' = [limiter EXCEPT !.now = @ + Tick,
                                  !.passedBefore = limiter.passedNow,
                                  !.passedNow = 0]
    /\ UNCHANGED <<impl, orchestratorVars, runnerVars, prepared>>

LimiterNext == rateLimiter \/ CleanupExpired \/ TimePasses

Next == RouteNext \/ ServiceNext \/ RunnerNext \/ PrepareNext \/ LimiterNext

Spec == Init /\ [][Next]_vars

\* The driving task of a job: its timers fire, its requests with a timeout
\* settle, its database and cache calls complete.
JobStep(j) == RouteJobStep(j) \/ SvcJobStep(j)

\* The timers of a local run fire and the events of its child are delivered.
FairSpec ==
    /\ Spec
    /\ \A j \in JobIds : WF_vars(JobStep(j))
    /\ \A e \in RunIds : WF_vars(RunStep(e))

\* ======================================================================
\* Properties
\* ======================================================================

JobExists(j) == j \in DOMAIN compilationJobs \/ j \in DOMAIN db

\* The fields of job j a caller can see, in either orchestrator.
JobView(j) ==
    IF j \in DOMAIN compilationJobs
    THEN [status |-> compilationJobs[j].status,
          stdout |-> compilationJobs[j].stdout,
          stderr |-> compilationJobs[j].stderr,
          exitCode |-> compilationJobs[j].exitCode,
          completedAt |-> compilationJobs[j].completedAt]
    ELSE formatCompilationResult(db[j])

JobLanguage(j) ==
    IF j \in DOMAIN compilationJobs THEN compilationJobs[j].language
    ELSE db[j].language

JobSourceFiles(j) ==
    IF j \in DOMAIN compilationJobs THEN compilationJobs[j].sourceFiles
    ELSE db[j].source_files

JobTerminal(j) == JobExists(j) /\ JobView(j).status \in TerminalStates

\* The languages that have a runtime profile in the running orchestrator.
RuntimeProfiles ==
    IF impl = "route" THEN RouteLanguageConfigs ELSE ServiceLanguageConfigs

\* C1: every job created by Submit eventually reaches success, error or
\* timeout, whatever the remote judge does (checked under FairSpec).
C1_EventuallyTerminal ==
    \A j \in JobIds : JobExists(j) ~> JobTerminal(j)

\* C2: terminal states are absorbing: once a job is success, error or
\* timeout, no step changes its state, completion timestamp, stdout, stderr
\* or exit code.
C2_TerminalAbsorbing ==
    [][\A j \in JobIds : JobTerminal(j) => JobView(j)' = JobView(j)]_vars

\* C2 witness: an Execute call has acted on a job that is terminal.
C2_Witness ==
    \E j \in JobIds :
        /\ JobTerminal(j)
        /\ resp.op = "Execute"
        /\ resp.job = j
        /\ resp.executed
        /\ resp.code = 200

\* C3: the states of a job occur in the order pending, running, one terminal
\* state; running is set before the remote submission or the local run
\* begins, and no job goes from pending directly to a terminal state.
C3_PendingRunningTerminal ==
    \A j \in JobIds :
        /\ Len(history[j]) <= 3
        /\ Len(history[j]) >= 1 => history[j][1] = "pending"
        /\ Len(history[j]) >= 2 => history[j][2] = "running"
        /\ Len(history[j]) >= 3 => history[j][3] \in TerminalStates
        /\ (remoteSubmits[j] > 0 \/ localRuns[j] > 0) => Len(history[j]) >= 2

\* C4: the completion timestamp of a job is set if and only if its state is
\* success, error or timeout.
C4_CompletedIffTerminal ==
    \A j \in JobIds :
        JobExists(j) =>
            (JobView(j).completedAt # Undefined <=> JobView(j).status \in TerminalStates)

\* C4 witness: a job the polling bound has ended in timeout carries a
\* completion timestamp.
C4_Witness ==
    \E j \in JobIds :
        /\ JobExists(j)
        /\ JobView(j).status = "timeout"
        /\ attempts[j] = maxAttempts
        /\ pc[j] = "upd_sel"
        /\ JobView(j).completedAt # Undefined

\* C5: when the remote submission of a job fails, Submit still succeeds and
\* the job is run by the Local Executor: its terminal state is the Local
\* Executor's outcome, and the submission failure is reported neither as a
\* failed Submit nor as the job's error.
C5_SubmitFailureFallsBack ==
    /\ \A j \in JobIds :
          (submitFailed[j] /\ JobTerminal(j)) =>
              /\ localResult[j] # {}
              /\ \A r \in localResult[j] : JobView(j).status = r.status
              /\ JobView(j).stderr # Some("Failed to submit compilation job")
    /\ ~(resp.op = "Submit" /\ resp.error = "Failed to submit compilation job")

\* C6: the remote-versus-local decision is made once per job: at most one
\* remote submission, at most one local run and only after the remote
\* submission failed, and no return to the remote judge after the local run
\* was started.
C6_SingleDecision ==
    /\ [](\A j \in JobIds :
            /\ remoteSubmits[j] <= 1
            /\ localRuns[j] <= 1
            /\ localRuns[j] >= 1 => submitFailed[j])
    /\ [][\A j \in JobIds :
            localRuns[j] >= 1 =>
                /\ remoteSubmits'[j] = remoteSubmits[j]
                /\ pc'[j] \notin {"fetch", "fetchNoAnswer", "json", "submit",
                                  "timer", "poll"}]_vars

\* C6 witness: a job whose one remote submission failed has been run once by
\* the Local Executor and is terminal.
C6_Witness ==
    \E j \in JobIds :
        /\ remoteSubmits[j] = 1
        /\ submitFailed[j]
        /\ localRuns[j] = 1
        /\ localResult[j] # {}
        /\ JobTerminal(j)

\* No poll of job j has produced a terminal remote result: stdout is written
\* only with a completed answer of the judge (CompletedUpdates).
NoRemoteResult(j) == db[j].stdout = Undefined

\* C7: on the remote path, when the 30 poll attempts are used up without a
\* terminal remote result (the polls reported "still processing" or failed),
\* the job's state becomes timeout.  Stated of the job as poll has written
\* it, while poll still holds its attempt counter.
C7_ExhaustedPollsTimeOut ==
    \A j \in DOMAIN db :
        (attempts[j] = maxAttempts /\ db[j].status \in TerminalStates
            /\ NoRemoteResult(j))
        => db[j].status = "timeout"

\* C8: the Status Cache never holds an earlier state after a later one was
\* written: once the terminal state of a job has been written, the cache
\* entry of the job is that record and every GetStatus call that starts
\* afterwards returns the terminal state.
C8_NoStaleStatus ==
    /\ \A j \in DOMAIN cache : pc[j] = "done" => cache[j].status = db[j].status
    /\ (impl = "service" /\ resp.op = "GetStatus" /\ resp.after) =>
           \A r \in resp.result : r.status \in TerminalStates

\* C9: Submit with a language that has no runtime profile creates no job.
C9_UnknownLanguageRejected ==
    \A j \in JobIds : JobExists(j) => JobLanguage(j) \in RuntimeProfiles

\* C10: Submit with an empty list of source files creates no job.
C10_EmptySourcesRejected ==
    \A j \in JobIds : JobExists(j) => Len(JobSourceFiles(j)) > 0
\* The owner of job j.
JobOwner(j) ==
    IF j \in DOMAIN compilationJobs THEN compilationJobs[j].userId
    ELSE db[j].user_id

\* C11: GetStatus leaks nothing across principals: a caller who does not
\* own the job id asked for gets the not-found response, whether the job
\* exists or not, and the call writes nothing to the cache; only the owner
\* receives the job's fields.
C11_NoCrossPrincipalLeak ==
    /\ (resp.op = "GetStatus" /\ ~(JobExists(resp.job) /\ JobOwner(resp.job) = resp.user))
          => IF impl = "route"
             THEN resp = [op |-> "GetStatus", user |-> resp.user,
                          job |-> resp.job, code |-> 404]
             ELSE resp.result = Undefined
    /\ \A r \in Readers :
          reader[r].pc = "cachewrite" =>
              /\ reader[r].job \in DOMAIN db
              /\ db[reader[r].job].user_id = reader[r].user

\* C11 witness: GetStatus of the service, called by a principal who does not
\* own an existing job whose record is in the cache, has returned not-found.
C11_Witness ==
    /\ impl = "service"
    /\ resp.op = "GetStatus"
    /\ resp.job \in DOMAIN db
    /\ resp.job \in DOMAIN cache
    /\ db[resp.job].user_id # resp.user
    /\ resp.result = Undefined

\* The errors by which Execute refuses a job that is not ready.
JobNotReadyErrors ==
    {"Job must be successfully compiled first",
     "Successful compilation job not found"}

\* C12: Execute on a job of the caller returns an execution result only
\* when the job's state is success; in every other state it fails with the
\* job-not-ready error and starts no execution; and no Execute call changes
\* a job record.
C12_ExecuteOnlyOnSuccess ==
    /\ [](resp.op = "Execute" =>
            /\ resp.code = 200 => resp.seen = "success"
            /\ resp.seen \in {"pending", "running", "error", "timeout"} =>
                  /\ resp.code # 200
                  /\ resp.error \in JobNotReadyErrors
                  /\ ~resp.executed)
    /\ [][(resp'.op = "Execute" /\ resp' # resp) =>
              /\ compilationJobs' = compilationJobs
              /\ db' = db
              /\ cache' = cache]_vars

\* C12 witness: Execute was called by the owner on a job in state error and
\* was refused.
C12_Witness ==
    /\ resp.op = "Execute"
    /\ resp.seen = "error"
    /\ JobExists(resp.job)
    /\ JobOwner(resp.job) = resp.user
    /\ ~resp.executed

C14_TimeoutExit124 ==
    \A j \in JobIds :
        (JobExists(j) /\ JobView(j).status = "timeout") =>
            JobView(j).exitCode = Some(124)

\* C15: when a local run has returned a timeout result, nothing of it is
\* still running: not the program, not a process the program started, not a
\* timer the run or the program registered.
C15_NothingLeftRunning ==
    \A e \in RunIds :
        \A r \in run[e].result :
            r.status = "timeout" =>
                /\ run[e].child \notin {"starting", "running"}
                /\ ~run[e].orphan
                /\ ~run[e].lingering
                /\ run[e].spawnTimer # "armed"
                /\ run[e].killTimer # "armed"

\* C16: every local run returns its result, whatever the program does
\* (checked under FairSpec): a job run locally gets the result, and a call
\* of runCode that waits for its child returns.
C16_LocalRunReturns ==
    /\ \A j \in JobIds : (localRuns[j] >= 1) ~> (localResult[j] # {})
    /\ \A e \in RunIds : (run[e].st = "awaiting") ~> (run[e].st = "returned")

\* C17: temp files are isolated between runs: every interpreter reads the
\* content its own run wrote, and while a run waits for its child its temp
\* file exists and holds that content.
C17_TempFilesIsolated ==
    \A e \in RunIds :
        /\ run[e].ran \subseteq {Code(e)}
        /\ run[e].st = "awaiting" =>
              /\ tempFile(run[e].lang, run[e].ms) \in DOMAIN tmpfs
              /\ tmpfs[tempFile(run[e].lang, run[e].ms)] = Code(e)

\* C18: when a run of a file-based language returns, on whatever path, its
\* temp file does not exist.
C18_TempFileRemoved ==
    \A e \in RunIds :
        (run[e].st = "returned" /\ run[e].lang \in FileLanguages) =>
            ~run[e].leftover

\* C19: the captured output is bounded: the capture never reaches the size
\* of the largest output a program of this model writes (MaxChunks chunks);
\* the run is ended before that.
C19_OutputBounded ==
    \A e \in RunIds : run[e].out < MaxChunks

\* The judge token associated with job j: the judge0Token of its metadata.
\* The route stores no token (it submits with wait=true).
RemoteToken(j) == j \in DOMAIN db /\ db[j].metadata # Undefined

\* The handle of the local process of job j.
LocalHandle(j) == child[j] # "none"

\* C20: a job in state running is associated with exactly one of a remote
\* judge token and a local process handle, and a job in a terminal state
\* with neither.
C20_OneExecutorWhileRunning ==
    \A j \in JobIds :
        JobExists(j) =>
            /\ JobView(j).status = "running" => (RemoteToken(j) # LocalHandle(j))
            /\ JobView(j).status \in TerminalStates =>
                  (~RemoteToken(j) /\ ~LocalHandle(j))

\* C21: when the remote submission of a job has failed and the job's
\* language has no local interpreter or compiler, the job ends in state
\* error, never success, and its message names both failures.
C21_BothFailedIsError ==
    \A j \in JobIds :
        (JobTerminal(j) /\ submitFailed[j]
            /\ LocalRunner(JobLanguage(j)) = "default")
        => /\ JobView(j).status = "error"
           /\ JobView(j).stderr \notin {Undefined, Some("")}

\* C22: when the interpreter of a local run cannot be started, the run
\* returns status error with a non-empty message; and runCode never throws
\* or rejects, whatever the language and the input.
C22_RunCodeNeverRejects ==
    \A e \in RunIds :
        /\ run[e].st # "rejected"
        /\ (run[e].st = "returned" /\ run[e].notStarted # {}) =>
              \A r \in run[e].result : r.status = "error" /\ r.message # ""

\* C27: a result of the process-based Local Executor has status success
\* exactly when its exit code is 0; a result with status error has a
\* non-zero exit code, also when the child was ended by a signal.
C27_SuccessIffExitZero ==
    \A e \in RunIds :
        run[e].lang \in FileLanguages =>
            \A r \in run[e].result :
                /\ r.status = "success" <=> r.exitCode = 0
                /\ r.status = "error" => r.exitCode # 0

\* C30: executePython never returns the failure to start python3 (it runs
\* the code with python then and returns that run's result), and it returns
\* 'Python interpreter not found' only when neither command could be
\* started.
C30_PythonRetry ==
    \A e \in RunIds :
        (run[e].st = "returned" /\ run[e].lang = "python") =>
            \A r \in run[e].result :
                /\ r.message # "spawn python3 ENOENT"
                /\ r.message = "Python interpreter not found" =>
                      run[e].notStarted = {"python3", "python"}

\* C23: a job updated from an answer of the remote judge stays non-terminal
\* for the status ids 1 (in queue) and 2 (processing), is success for 3
\* (accepted) and error for every other id, a missing id included.
C23_JudgeStatusMapped ==
    \A j \in JobIds :
        \A sid \in judged[j] :
            /\ sid \in {Some(1), Some(2)} => ~JobTerminal(j)
            /\ sid = Some(3) => JobView(j).status = "success"
            /\ sid \notin {Some(1), Some(2), Some(3)} =>
                  JobView(j).status = "error"

\* C24: Submit never answers 'Unsupported language' for an alias or another
\* letter case of a language the local runner knows (PY).
C24_AliasesAccepted ==
    (resp.op = "Submit" /\ resp.error = "Unsupported language") =>
        LocalRunner(resp.language) # "process"

\* C25: after a local run the job carries the status, stdout, stderr, exit
\* code and execution time of the result runCode returned, and its memory
\* usage is unset.
C25_LocalOutcomeCopied ==
    \A j \in JobIds :
        (j \in DOMAIN compilationJobs /\ localResult[j] # {}) =>
            \A r \in localResult[j] :
                /\ compilationJobs[j].status = r.status
                /\ compilationJobs[j].stdout = Some(r.stdout)
                /\ compilationJobs[j].stderr = Some(r.stderr)
                /\ compilationJobs[j].exitCode = Some(r.exitCode)
                /\ compilationJobs[j].executionTimeMs = Some(r.executionTimeMs)
                /\ compilationJobs[j].memoryUsedKb = Undefined

\* C26: for a java submission of several files of which one contains the
\* signature 'public static void main', the source prepared is the content
\* of a file that contains the signature.
C26_MainFileSelected ==
    \A p \in prepared :
        (/\ p.language = "java"
         /\ Len(p.files) > 1
         /\ \E i \in 1..Len(p.files) : ContentIncludesMain(p.files[i].content))
        => /\ Len(p.source) = 1
           /\ ContentIncludesMain(p.source[1][3])

\* C28: a job of the service has at most one poll scheduled or in flight,
\* has sent at most maxAttempts poll requests, and has no poll scheduled or
\* in flight once its terminal state is written.
C28_PollsBounded ==
    \A j \in JobIds :
        /\ polls[j].scheduled + polls[j].inflight <= 1
        /\ attempts[j] <= maxAttempts
        /\ (j \in DOMAIN db /\ db[j].status \in TerminalStates) =>
              polls[j].scheduled + polls[j].inflight = 0

C28_Witness ==
    \E j \in JobIds :
        /\ j \in DOMAIN db
        /\ db[j].status = "timeout"
        /\ attempts[j] = maxAttempts
        /\ polls[j] = NoPolls

\* C29: in every interval of 60 seconds the limiter hands at most
\* maxRequests requests of a client to the routes (two instants of the
\* clock next to each other lie in one such interval), and a request
\* answered 429 is not counted.
C29_SlidingWindow ==
    /\ limiter.passedBefore + limiter.passedNow <= maxRequests
    /\ limiter.code = 429 =>
          \A userRequests \in limiter.entry : userRequests.count = maxRequests
====
